---- MODULE Spec2Model ----
(***************************************************************************)
(* Model of the virtual memory simulator core, pa3.c: the TLB, the page   *)
(* frame allocator, the copy-on-write page fault handler and the process   *)
(* switcher.  Every exported function of pa3.c is one action; the driver   *)
(* that calls them is the environment, which may call any of them with any *)
(* argument drawn from the bounded input sets below.                       *)
(***************************************************************************)
EXTENDS Integers, Sequences, FiniteSets, TLC

(* ------------------------------ bounds -------------------------------- *)
\* Entries per second-level table and second-level tables per process
\* (vm.h's NR_PTES_PER_PAGE, scaled down).
NR_PTES_PER_PAGE == 2
\* Size of the physical frame pool (vm.h's NR_PAGEFRAMES, scaled down).
NR_PAGEFRAMES == 2
\* The driver uses the VPNs 0..MaxVpn.
MaxVpn == 1
\* Most processes ever created, the initial one included.
MaxProcs == 3
\* Most calls the driver makes in one run.
MaxOps == 6

(* -------------------------- program constants -------------------------- *)
RW_READ == 1
RW_WRITE == 2

Dirs == 0 .. (NR_PTES_PER_PAGE - 1)
Idx == 0 .. (NR_PTES_PER_PAGE - 1)
Frames == 0 .. (NR_PAGEFRAMES - 1)
NR_VPNS == NR_PTES_PER_PAGE * NR_PTES_PER_PAGE
TlbSlots == 0 .. (NR_VPNS - 1)
VPNs == 0 .. (IF MaxVpn < NR_VPNS THEN MaxVpn ELSE NR_VPNS - 1)
PIDs == 0 .. (MaxProcs - 1)
AllocModes == {RW_READ, RW_WRITE, RW_READ + RW_WRITE}
FaultModes == {RW_READ, RW_WRITE}

Min(S) == CHOOSE x \in S : \A y \in S : x <= y

(* ------------------------------- state --------------------------------- *)
VARIABLES
  mapcounts,   \* mapcounts[]: frame -> number of mappings
  procs,       \* every struct process created so far, by handle 1..Len(procs)
  current,     \* handle of the running process
  processes,   \* the list `processes`, head first, as handles
  ptbr,        \* handle of the process whose page table ptbr points to
  tlb,         \* tlb[]: slot -> [vpn, pfn, valid]
  heap,        \* what malloc'ed memory holds in this run, as a struct pte
  crashed,     \* TRUE once a call has dereferenced an invalid pointer
  last,        \* the last call: its name, arguments and return value
  pre,         \* the state the last call started from
  trip,        \* progress of an alloc_page, free_page, alloc_page sequence
  nops         \* number of calls made

vars == <<mapcounts, procs, current, processes, ptbr, tlb, heap, crashed,
          last, pre, trip, nops>>

ZeroPTE == [valid |-> FALSE, writable |-> FALSE, pfn |-> 0, private |-> 0]
OnesPTE == [valid |-> TRUE, writable |-> TRUE, pfn |-> NR_PAGEFRAMES - 1,
            private |-> 1]

\* malloc does not initialise memory.  What a malloc'ed block holds, as the
\* value of every struct pte in it: zeroes (fresh pages) or a leftover
\* pattern.  One pattern per run.
HeapFills == {ZeroPTE, OnesPTE}

ZeroTLBE == [vpn |-> 0, pfn |-> 0, valid |-> FALSE]

\* A struct pagetable: per outer slot, whether outer_ptes[i] is non-NULL and
\* the struct pte_directory it points to.
NullDir == [present |-> FALSE, ptes |-> [j \in Idx |-> ZeroPTE]]
EmptyPagetable == [i \in Dirs |-> NullDir]

pd_index(vpn) == vpn \div NR_PTES_PER_PAGE
pte_index(vpn) == vpn % NR_PTES_PER_PAGE

\* current->pagetable.outer_ptes[pd_index]->ptes[pte_index] in page table pt
PTEOf(pt, vpn) == pt[pd_index(vpn)].ptes[pte_index(vpn)]
DirPresent(pt, vpn) == pt[pd_index(vpn)].present
SetPTE(pt, vpn, e) ==
  [pt EXCEPT ![pd_index(vpn)].ptes[pte_index(vpn)] = e]

NoCall == [op |-> "none", vpn |-> 0, rw |-> 0, pid |-> 0, pfn |-> 0, ret |-> 0]
Snapshot == [mapcounts |-> mapcounts, procs |-> procs, current |-> current,
             processes |-> processes, ptbr |-> ptbr, tlb |-> tlb]

\* Record of the calls before the last one, kept while they form the
\* sequence alloc_page(v, write access), free_page(v), alloc_page(w):
\* stage 2 after the free_page, stage 3 after the second alloc_page, with
\* the first call's vpn, its PFN and the mapcounts it started from.
NoTrip == [stage |-> 0, vpn |-> 0, pfn |-> 0, mapcounts |-> [f \in Frames |-> 0]]
round_trip(call) ==
  IF /\ call.op = "free_page"
     /\ last.op = "alloc_page" /\ last.vpn = call.vpn /\ last.ret >= 0
     /\ last.rw \in {RW_WRITE, RW_READ + RW_WRITE}
  THEN [stage |-> 2, vpn |-> last.vpn, pfn |-> last.ret,
        mapcounts |-> pre.mapcounts]
  ELSE IF call.op = "alloc_page" /\ trip.stage = 2 /\ call.vpn # trip.vpn
       THEN [trip EXCEPT !.stage = 3]
       ELSE NoTrip

Init ==
  /\ mapcounts = [f \in Frames |-> 0]
  /\ procs = <<[pid |-> 0, pagetable |-> EmptyPagetable]>>
  /\ current = 1
  /\ processes = <<>>
  /\ ptbr = 1
  /\ tlb = [i \in TlbSlots |-> ZeroTLBE]
  /\ heap \in HeapFills
  /\ crashed = FALSE
  /\ last = NoCall
  /\ pre = [mapcounts |-> mapcounts, procs |-> procs, current |-> current,
            processes |-> processes, ptbr |-> ptbr, tlb |-> tlb]
  /\ trip = NoTrip
  /\ nops = 0

\* Bookkeeping shared by every call.
Called(call) ==
  /\ ~crashed
  /\ nops < MaxOps
  /\ nops' = nops + 1
  /\ pre' = Snapshot
  /\ last' = call
  /\ trip' = round_trip(call)
  /\ heap' = heap

\* A call that dereferences a NULL or wild pointer: the simulator dies.
Crash ==
  /\ crashed' = TRUE
  /\ UNCHANGED <<mapcounts, procs, current, processes, ptbr, tlb>>

(* ------------------------ lookup_tlb, insert_tlb ----------------------- *)
\* lookup_tlb: the slots that hit, lowest first
TlbHits(t, vpn) == {i \in TlbSlots : t[i].vpn = vpn /\ t[i].valid}
lookup_tlb_hit(t, vpn) == TlbHits(t, vpn) # {}
lookup_tlb_pfn(t, vpn) == t[Min(TlbHits(t, vpn))].pfn

LookupTlb(vpn) ==
  /\ Called([NoCall EXCEPT !.op = "lookup_tlb", !.vpn = vpn,
               !.pfn = IF lookup_tlb_hit(tlb, vpn)
                       THEN lookup_tlb_pfn(tlb, vpn) ELSE 0,
               !.ret = IF lookup_tlb_hit(tlb, vpn) THEN 1 ELSE 0])
  /\ UNCHANGED <<mapcounts, procs, current, processes, ptbr, tlb, crashed>>

\* insert_tlb walking the slots from the top: the highest invalid slot is
\* filled.
insert_tlb_fills_highest_slot(t, vpn, pfn) ==
  LET inv == {i \in TlbSlots : ~t[i].valid}
  IN IF inv = {} THEN t
     ELSE [t EXCEPT ![CHOOSE i \in inv : \A j \in inv : j <= i] =
             [vpn |-> vpn, pfn |-> pfn, valid |-> TRUE]]

\* insert_tlb without line 95: the slot is filled but never marked valid.
insert_tlb_leaves_slot_invalid(t, vpn, pfn) ==
  LET inv == {i \in TlbSlots : ~t[i].valid}
  IN IF inv = {} THEN t
     ELSE [t EXCEPT ![Min(inv)] = [vpn |-> vpn, pfn |-> pfn, valid |-> FALSE]]

insert_tlb(t, vpn, pfn) ==
  LET inv == {i \in TlbSlots : ~t[i].valid}
  IN IF inv = {} THEN t
     ELSE [t EXCEPT ![Min(inv)] = [vpn |-> vpn, pfn |-> pfn, valid |-> TRUE]]

InsertTlb(vpn, pfn) ==
  /\ Called([NoCall EXCEPT !.op = "insert_tlb", !.vpn = vpn, !.pfn = pfn])
  /\ tlb' = insert_tlb(tlb, vpn, pfn)
  /\ UNCHANGED <<mapcounts, procs, current, processes, ptbr, crashed>>

(* ------------------------------ alloc_page ----------------------------- *)
\* lines 125-128: every NULL outer_ptes[i] gets a malloc'ed directory
alloc_directories(pt, fill) ==
  [i \in Dirs |-> IF pt[i].present THEN pt[i]
                  ELSE [present |-> TRUE, ptes |-> [j \in Idx |-> fill]]]

FreeFrames(mc) == {i \in Frames : mc[i] = 0}
\* lines 130-131: the first i with mapcounts[i] == 0
first_free_frame(mc) == Min(FreeFrames(mc))

\* lines 144-148: the writable bit after alloc_page
alloc_writable(rw, old) ==
  IF rw = 3 THEN TRUE
  ELSE IF rw = 1 THEN FALSE
  ELSE old

\* lines 132-134, 144-148: the entry alloc_page installs
alloc_pte(old, i, rw) ==
  [valid |-> TRUE, writable |-> alloc_writable(rw, old.writable), pfn |-> i,
   private |-> 0]

\* alloc_page with lines 132-134 run before the search for a free frame: the
\* entry is marked valid even when the pool is exhausted.
alloc_page_result_marks_entry_first(pt, mc, vpn, rw) ==
  IF FreeFrames(mc) = {}
  THEN [pagetable |-> SetPTE(pt, vpn, [PTEOf(pt, vpn) EXCEPT !.valid = TRUE]),
        mapcounts |-> mc, ret |-> -1]
  ELSE LET i == Min(FreeFrames(mc))
       IN [pagetable |-> SetPTE(pt, vpn, alloc_pte(PTEOf(pt, vpn), i, rw)),
           mapcounts |-> [mc EXCEPT ![i] = @ + 1],
           ret |-> i]

\* lines 130-150: the table, the counts and the return value of alloc_page,
\* pt being the table after lines 125-128
alloc_page_result(pt, mc, vpn, rw) ==
  IF FreeFrames(mc) = {}
  THEN [pagetable |-> pt, mapcounts |-> mc, ret |-> -1]
  ELSE LET i == first_free_frame(mc)
       IN [pagetable |-> SetPTE(pt, vpn, alloc_pte(PTEOf(pt, vpn), i, rw)),
           mapcounts |-> [mc EXCEPT ![i] = @ + 1],
           ret |-> i]

AllocPage(vpn, rw) ==
  LET pt == alloc_directories(procs[current].pagetable, heap)
      r == alloc_page_result(pt, mapcounts, vpn, rw)
  IN /\ Called([NoCall EXCEPT !.op = "alloc_page", !.vpn = vpn, !.rw = rw,
                  !.ret = r.ret])
     /\ procs' = [procs EXCEPT ![current].pagetable = r.pagetable]
     /\ mapcounts' = r.mapcounts
     /\ UNCHANGED <<current, processes, ptbr, tlb, crashed>>

(* ------------------------------ free_page ------------------------------ *)
\* free_page without the test of line 168: the count drops even from 0.
free_page_mapcounts_unguarded(mc, pfn) == [mc EXCEPT ![pfn] = @ - 1]

\* free_page without line 170: the frame's count is left as it is.
free_page_mapcounts_keeps_count(mc, pfn) == mc

\* lines 168-170: the frame's count drops unless it is already 0
free_page_mapcounts(mc, pfn) ==
  IF mc[pfn] >= 1 THEN [mc EXCEPT ![pfn] = @ - 1] ELSE mc

\* lines 171-173: pfn, valid and writable are reset; private is not touched
free_page_pte(e) == [e EXCEPT !.pfn = 0, !.valid = FALSE, !.writable = FALSE]

\* lines 175-183: the first valid TLB slot holding vpn is cleared
free_page_tlb(t, vpn) ==
  LET hit == {i \in TlbSlots : t[i].valid /\ t[i].vpn = vpn}
  IN IF hit = {} THEN t ELSE [t EXCEPT ![Min(hit)] = ZeroTLBE]

FreePage(vpn) ==
  LET pt == procs[current].pagetable
      e == PTEOf(pt, vpn)
  IN /\ Called([NoCall EXCEPT !.op = "free_page", !.vpn = vpn])
     /\ IF ~DirPresent(pt, vpn)
        THEN Crash
        ELSE /\ mapcounts' = free_page_mapcounts(mapcounts, e.pfn)
             /\ procs' = [procs EXCEPT ![current].pagetable =
                            SetPTE(pt, vpn, free_page_pte(e))]
             /\ tlb' = free_page_tlb(tlb, vpn)
             /\ UNCHANGED <<current, processes, ptbr, crashed>>

(* --------------------------- handle_page_fault ------------------------- *)
\* The handler without the rw tests of lines 216 and 222: a read fault is
\* resolved like a write fault.
fault_return_ignores_rw(e, mc, rw) ==
  IF e.private = 0 THEN 211
  ELSE IF ~e.writable /\ mc[e.pfn] = 1 THEN 219
  ELSE IF ~e.writable /\ mc[e.pfn] >= 2 THEN 233
  ELSE 236

\* Which return statement handle_page_fault reaches: 211, 219, 233 or 236.
fault_return(e, mc, rw) ==
  IF e.private = 0 THEN 211
  ELSE IF ~e.writable /\ mc[e.pfn] = 1 /\ rw = RW_WRITE THEN 219
  ELSE IF ~e.writable /\ mc[e.pfn] >= 2 /\ rw = RW_WRITE THEN 233
  ELSE 236

\* The promotion without line 218: private stays set.
fault_promote_keeps_private(e) == [e EXCEPT !.writable = TRUE]

\* lines 217-218: the entry is made writable in place
fault_promote(e) == [e EXCEPT !.writable = TRUE, !.private = 0]

\* lines 223-231: the entry moves to the first free frame, if there is one
fault_copy_pte(e, mc) ==
  IF FreeFrames(mc) = {} THEN e
  ELSE [e EXCEPT !.pfn = first_free_frame(mc), !.writable = TRUE,
                 !.private = 0]

\* lines 228, 232: the new frame's count rises, the old frame's count drops
fault_copy_mapcounts(mc, pfn) ==
  LET mc1 == IF FreeFrames(mc) = {} THEN mc
             ELSE [mc EXCEPT ![first_free_frame(mc)] = @ + 1]
  IN [mc1 EXCEPT ![pfn] = @ - 1]

HandlePageFault(vpn, rw) ==
  LET pt == procs[current].pagetable
      e == PTEOf(pt, vpn)
      r == fault_return(e, mapcounts, rw)
  IN IF ~DirPresent(pt, vpn)
     THEN /\ Called([NoCall EXCEPT !.op = "handle_page_fault", !.vpn = vpn,
                       !.rw = rw])
          /\ Crash
     ELSE /\ Called([NoCall EXCEPT !.op = "handle_page_fault", !.vpn = vpn,
                       !.rw = rw, !.ret = IF r \in {219, 233} THEN 1 ELSE 0])
          /\ procs' = [procs EXCEPT ![current].pagetable =
                         IF r = 219 THEN SetPTE(pt, vpn, fault_promote(e))
                         ELSE IF r = 233
                              THEN SetPTE(pt, vpn, fault_copy_pte(e, mapcounts))
                              ELSE pt]
          /\ mapcounts' = IF r = 233 THEN fault_copy_mapcounts(mapcounts, e.pfn)
                          ELSE mapcounts
          /\ UNCHANGED <<current, processes, ptbr, tlb, crashed>>

(* ----------------------------- switch_process -------------------------- *)
\* lines 263-264: positions in `processes` holding pid; the reverse walk
\* stops at the last of them
Matches(pid) == {k \in 1 .. Len(processes) : procs[processes[k]].pid = pid}

\* The switch without line 269: the chosen process stays on the list.
RemoveAt_removes_nothing(s, k) == s

RemoveAt(s, k) == SubSeq(s, 1, k - 1) \o SubSeq(s, k + 1, Len(s))

\* The flush stopping after slot 0.
flush_tlb_first_slot_only(t) == [t EXCEPT ![0] = ZeroTLBE]

\* lines 300-304
flush_tlb(t) == [i \in TlbSlots |-> ZeroTLBE]

\* lines 265-270: switch to the suspended process at position k
SwitchTo(k) ==
  /\ current' = processes[k]
  /\ processes' = RemoveAt(Append(processes, current), k)
  /\ ptbr' = processes[k]
  /\ tlb' = flush_tlb(tlb)
  /\ UNCHANGED <<mapcounts, procs, crashed>>

ValidVPNs(pt) ==
  {v \in 0 .. (NR_VPNS - 1) : pt[pd_index(v)].present /\ PTEOf(pt, v).valid}

\* The fork without the test of line 287: every valid entry is made
\* non-writable and private.
fork_parent_pte_marks_every_entry(e) ==
  IF e.valid THEN [e EXCEPT !.writable = FALSE, !.private = 1] ELSE e

\* lines 287-290: the parent's entry after the fork
fork_parent_pte(e) ==
  IF e.valid /\ e.writable THEN [e EXCEPT !.writable = FALSE, !.private = 1]
  ELSE e

\* line 286 over the whole walk: one increment per valid entry
fork_mapcounts(mc, pt) ==
  [f \in Frames |-> mc[f] + Cardinality({v \in ValidVPNs(pt) : PTEOf(pt, v).pfn = f})]

\* lines 283-294: the parent's table after the walk
fork_parent_table(pt) ==
  [i \in Dirs |-> [pt[i] EXCEPT !.ptes = [j \in Idx |-> fork_parent_pte(pt[i].ptes[j])]]]

\* lines 279-294: the child's table: valid parent entries are copied, the
\* others keep what malloc left in them
fork_child_table(pt, fill) ==
  [i \in Dirs |->
     [present |-> TRUE,
      ptes |-> [j \in Idx |-> IF pt[i].ptes[j].valid
                              THEN fork_parent_pte(pt[i].ptes[j])
                              ELSE fill]]]

\* Whether the outer_ptes[] slots of the malloc'ed child read as NULL at
\* line 280: malloc does not initialise them either.
ChildSlotsNull == IF heap = ZeroPTE THEN {TRUE} ELSE BOOLEAN

\* lines 274-298: fork a child of current
Fork(pid) ==
  \E slots_null \in ChildSlotsNull :
    LET pt == procs[current].pagetable
    IN IF (\E i \in Dirs : ~pt[i].present) \/ ~slots_null
       \* line 285 reads through a NULL outer_ptes[i] of the parent, or
       \* line 280 finds garbage in the child's outer_ptes[i] and the walk
       \* uses it as a pointer
       THEN Crash
       ELSE /\ Len(procs) < MaxProcs
            /\ mapcounts' = fork_mapcounts(mapcounts, pt)
            /\ procs' = Append([procs EXCEPT ![current].pagetable =
                                  fork_parent_table(pt)],
                               [pid |-> pid,
                                pagetable |-> fork_child_table(pt, heap)])
            /\ processes' = <<current>> \o processes
            /\ current' = Len(procs) + 1
            /\ ptbr' = Len(procs) + 1
            /\ tlb' = flush_tlb(tlb)
            /\ UNCHANGED crashed

SwitchProcess(pid) ==
  /\ Called([NoCall EXCEPT !.op = "switch_process", !.pid = pid])
  /\ IF Matches(pid) # {}
     THEN SwitchTo(CHOOSE k \in Matches(pid) : \A m \in Matches(pid) : m <= k)
     ELSE Fork(pid)

Next ==
  \/ \E vpn \in VPNs : LookupTlb(vpn)
  \/ \E vpn \in VPNs, pfn \in Frames : InsertTlb(vpn, pfn)
  \/ \E vpn \in VPNs, rw \in AllocModes : AllocPage(vpn, rw)
  \/ \E vpn \in VPNs : FreePage(vpn)
  \/ \E vpn \in VPNs, rw \in FaultModes : HandlePageFault(vpn, rw)
  \/ \E pid \in PIDs : SwitchProcess(pid)

Spec == Init /\ [][Next]_vars

\* The runs in which malloc hands out zero-filled memory.
InitZeroHeap == Init /\ heap = ZeroPTE
SpecZeroHeap == InitZeroHeap /\ [][Next]_vars

(* ===================================================================== *)
(*                               claims                                  *)
(* ===================================================================== *)
AllVPNs == 0 .. (NR_VPNS - 1)
Handles(P) == 1 .. Len(P)

\* The entry of process h for vpn in the process table P, and whether it
\* exists (its second-level table is allocated).
Entry(P, h, vpn) == PTEOf(P[h].pagetable, vpn)
HasEntry(P, h, vpn) == DirPresent(P[h].pagetable, vpn)
Maps(P, h, vpn, f) ==
  HasEntry(P, h, vpn) /\ Entry(P, h, vpn).valid /\ Entry(P, h, vpn).pfn = f

\* Number of valid page-table entries, over all processes, whose pfn is f.
NrMappings(P, f) ==
  Cardinality({x \in Handles(P) \X AllVPNs : Maps(P, x[1], x[2], f)})

Returned(name) == last.op = name /\ ~crashed
Forked == Returned("switch_process") /\ Len(procs) = Len(pre.procs) + 1
Switched == Returned("switch_process") /\ Len(procs) = Len(pre.procs)

\* C1: in every reachable state, for every frame f, mapcounts[f] equals the
\* number of valid page-table entries of all processes whose pfn is f.
C1_MapcountEqualsMappings ==
  \A f \in Frames : mapcounts[f] = NrMappings(procs, f)

\* C2: in every reachable state, no valid and writable page-table entry of
\* any process maps a frame whose mapcount is 2 or more.
C2_NoWritableSharedFrame ==
  \A h \in Handles(procs), v \in AllVPNs :
    (HasEntry(procs, h, v) /\ Entry(procs, h, v).valid
       /\ Entry(procs, h, v).writable)
    => mapcounts[Entry(procs, h, v).pfn] < 2

\* C3: after a fork, every page that was valid and writable in the parent
\* is non-writable and private in both the parent and the child, both at
\* the pfn it had, and that frame's mapcount is one more than before.
C3_ForkSharesWritablePages ==
  Forked =>
    \A v \in AllVPNs :
      LET old == Entry(pre.procs, pre.current, v)
          parent == Entry(procs, pre.current, v)
          child == Entry(procs, current, v)
      IN (old.valid /\ old.writable) =>
           /\ ~parent.writable /\ parent.private = 1
           /\ ~child.writable /\ child.private = 1
           /\ parent.pfn = old.pfn /\ child.pfn = old.pfn
           /\ mapcounts[old.pfn] = pre.mapcounts[old.pfn] + 1

\* The counts agreed with the page tables when the last call started.
CountsWereRight ==
  \A f \in Frames : pre.mapcounts[f] = NrMappings(pre.procs, f)

\* Supplement to C3: the statement holds for every fork that starts from
\* counts that agree with the page tables.
C3_HoldsWhenCountsWereRight == CountsWereRight => C3_ForkSharesWritablePages

\* The entry handle_page_fault was called on, before and after the call.
FaultOld == Entry(pre.procs, pre.current, last.vpn)
FaultNew == Entry(procs, current, last.vpn)
OthersUnchanged ==
  \A h \in Handles(procs) : h # current => procs[h] = pre.procs[h]

\* C4: a write fault on a private, non-writable entry whose frame has
\* mapcount 2 returns true; afterwards the entry is writable, not private
\* and maps a different frame of mapcount 1, the old frame's mapcount is 1,
\* and every other process's table is unchanged.
C4_WriteFaultOnSharedFrameCopies ==
  (Returned("handle_page_fault") /\ last.rw = RW_WRITE
     /\ FaultOld.private # 0 /\ ~FaultOld.writable
     /\ pre.mapcounts[FaultOld.pfn] = 2)
  => /\ last.ret = 1
     /\ FaultNew.writable /\ FaultNew.private = 0
     /\ FaultNew.pfn # FaultOld.pfn
     /\ mapcounts[FaultNew.pfn] = 1
     /\ mapcounts[FaultOld.pfn] = 1
     /\ OthersUnchanged

\* Supplement to C4: the statement holds whenever a frame of mapcount 0
\* is left.
C4_HoldsWhenAFrameIsFree ==
  FreeFrames(pre.mapcounts) # {} => C4_WriteFaultOnSharedFrameCopies

\* C5: a write fault on a private, non-writable entry whose frame has
\* mapcount 1 returns true, makes the entry writable and not private at the
\* same pfn, and changes no mapcount.
C5_WriteFaultOnExclusiveFramePromotes ==
  (Returned("handle_page_fault") /\ last.rw = RW_WRITE
     /\ FaultOld.private # 0 /\ ~FaultOld.writable
     /\ pre.mapcounts[FaultOld.pfn] = 1)
  => /\ last.ret = 1
     /\ FaultNew = [FaultOld EXCEPT !.writable = TRUE, !.private = 0]
     /\ FaultNew.pfn = FaultOld.pfn
     /\ mapcounts = pre.mapcounts

C5_Witness ==
  /\ Returned("handle_page_fault") /\ last.rw = RW_WRITE
  /\ FaultOld.private # 0 /\ ~FaultOld.writable /\ FaultOld.valid
  /\ pre.mapcounts[FaultOld.pfn] = 1
  /\ FaultNew.writable

\* C6: free_page on a VPN whose entry in the current process is already
\* invalid changes no mapcount and does not fail.
C6_FreeOfInvalidEntryIsNoOp ==
  (last.op = "free_page" /\ HasEntry(pre.procs, pre.current, last.vpn)
     /\ ~Entry(pre.procs, pre.current, last.vpn).valid)
  => ~crashed /\ mapcounts = pre.mapcounts

\* Write access was requested: rw carries the RW_WRITE flag.
WriteRequested(rw) == rw \in {RW_WRITE, RW_READ + RW_WRITE}

\* C7: with a frame of mapcount 0, alloc_page returns the smallest such
\* PFN; afterwards that frame's mapcount is 1 and the entry for vpn is
\* valid, maps it, is not private, and is writable exactly when write
\* access was requested.
C7_AllocTakesSmallestFreeFrame ==
  (Returned("alloc_page") /\ FreeFrames(pre.mapcounts) # {})
  => LET e == Entry(procs, current, last.vpn)
     IN /\ last.ret \in FreeFrames(pre.mapcounts)
        /\ \A f \in FreeFrames(pre.mapcounts) : last.ret <= f
        /\ mapcounts[last.ret] = 1
        /\ e.valid /\ e.pfn = last.ret /\ e.private = 0
        /\ e.writable <=> WriteRequested(last.rw)

\* Supplement to C7: the statement holds for every call whose rw is RW_READ
\* or RW_READ | RW_WRITE; only rw = RW_WRITE alone escapes lines 144-148.
C7_HoldsForReadAndReadWrite ==
  last.rw # RW_WRITE => C7_AllocTakesSmallestFreeFrame

\* C8: with no frame of mapcount 0, alloc_page returns -1 and leaves every
\* mapcount and every field of every page-table entry unchanged.
C8_AllocFailsWhenPoolExhausted ==
  (Returned("alloc_page") /\ FreeFrames(pre.mapcounts) = {})
  => /\ last.ret = -1
     /\ mapcounts = pre.mapcounts
     /\ \A h \in Handles(procs), v \in AllVPNs :
          Entry(procs, h, v) = Entry(pre.procs, h, v)

C8_Witness ==
  /\ Returned("alloc_page") /\ FreeFrames(pre.mapcounts) = {}
  /\ last.ret = -1
  /\ ~Entry(pre.procs, pre.current, last.vpn).valid

\* C9: free_page on a valid entry decrements the frame's mapcount by exactly
\* 1 and resets the entry's valid, writable and pfn; a frame shared with
\* another process stays mapped by that process and keeps a mapcount of at
\* least 1.
C9_FreeOfValidEntryReleasesFrame ==
  (Returned("free_page") /\ HasEntry(pre.procs, pre.current, last.vpn)
     /\ Entry(pre.procs, pre.current, last.vpn).valid)
  => LET old == Entry(pre.procs, pre.current, last.vpn)
         e == Entry(procs, current, last.vpn)
     IN /\ mapcounts[old.pfn] = pre.mapcounts[old.pfn] - 1
        /\ ~e.valid /\ ~e.writable /\ e.pfn = 0
        /\ \A h \in Handles(procs), v \in AllVPNs :
             (h # current /\ Maps(pre.procs, h, v, old.pfn))
             => Maps(procs, h, v, old.pfn) /\ mapcounts[old.pfn] >= 1

\* Supplement to C9: the statement holds for every free_page that starts
\* from counts that agree with the page tables.
C9_HoldsWhenCountsWereRight ==
  CountsWereRight => C9_FreeOfValidEntryReleasesFrame

\* lookup_tlb misses for every VPN.
TlbEmpty == \A v \in AllVPNs : ~lookup_tlb_hit(tlb, v)

\* C10: after every switch_process call, to a suspended process or to a
\* forked one, every TLB slot is invalid.
C10_SwitchFlushesTlb ==
  Returned("switch_process") => (\A i \in TlbSlots : ~tlb[i].valid) /\ TlbEmpty

C10_Witness ==
  /\ Switched
  /\ \E i \in TlbSlots : i # 0 /\ pre.tlb[i].valid
  /\ \A i \in TlbSlots : ~tlb[i].valid

\* Every variable of the simulator is as it was before the last call.
StateUnchanged ==
  /\ mapcounts = pre.mapcounts /\ procs = pre.procs /\ current = pre.current
  /\ processes = pre.processes /\ ptbr = pre.ptbr /\ tlb = pre.tlb

\* lookup_tlb returns what the claim says: it changes no state and misses
\* for a VPN that no valid slot holds.
LookupIsPureAndMissesUnknown ==
  Returned("lookup_tlb") =>
    /\ StateUnchanged
    /\ (\A i \in TlbSlots : ~(tlb[i].valid /\ tlb[i].vpn = last.vpn))
         => last.ret = 0

\* C11 as stated: after insert_tlb(v, p), lookup_tlb(v) hits with PFN p;
\* lookup_tlb misses for every VPN without a valid entry and changes no
\* state.
C11_InsertThenLookupHits ==
  /\ Returned("insert_tlb") =>
       /\ lookup_tlb_hit(tlb, last.vpn)
       /\ lookup_tlb_pfn(tlb, last.vpn) = last.pfn
  /\ LookupIsPureAndMissesUnknown

\* insert_tlb was called with a slot left and no valid entry for its VPN.
InsertHadRoom ==
  /\ \E i \in TlbSlots : ~pre.tlb[i].valid
  /\ ~lookup_tlb_hit(pre.tlb, last.vpn)

\* C11 as amended: after insert_tlb(v, p) called when some slot is invalid
\* and no valid slot holds v, lookup_tlb(v) hits with PFN p; lookup_tlb
\* misses for every VPN without a valid entry and changes no state.
C11_InsertWithRoomThenLookupHits ==
  /\ (Returned("insert_tlb") /\ InsertHadRoom) =>
       /\ lookup_tlb_hit(tlb, last.vpn)
       /\ lookup_tlb_pfn(tlb, last.vpn) = last.pfn
  /\ LookupIsPureAndMissesUnknown

C11_Witness ==
  /\ Returned("insert_tlb") /\ InsertHadRoom
  /\ \E i \in TlbSlots : pre.tlb[i].valid
  /\ lookup_tlb_pfn(tlb, last.vpn) = last.pfn

Range(s) == {s[k] : k \in 1 .. Len(s)}

\* switch_process was called with the pid of a suspended process.
SuspendedExisted ==
  \E k \in 1 .. Len(pre.processes) :
    pre.procs[pre.processes[k]].pid = last.pid

\* C12: when switch_process(pid) finds a suspended process with that pid,
\* afterwards that process is current and off the suspended list, the
\* previously current process is on the suspended list, ptbr refers to the
\* new current process's page table, and no page-table entry and no
\* mapcount has changed.
C12_SwitchToSuspendedProcess ==
  (Returned("switch_process") /\ SuspendedExisted) =>
    /\ current \in Range(pre.processes)
    /\ procs[current].pid = last.pid
    /\ current \notin Range(processes)
    /\ pre.current \in Range(processes)
    /\ ptbr = current
    /\ procs = pre.procs
    /\ mapcounts = pre.mapcounts

C12_Witness ==
  /\ Returned("switch_process") /\ SuspendedExisted
  /\ Len(pre.processes) >= 2
  /\ \E f \in Frames : mapcounts[f] > 0
  /\ current \notin Range(processes)

\* handle_page_fault was called for a VPN the current process did not map:
\* its second-level table was absent or the entry was not valid.
FaultOnUnmapped ==
  /\ last.op = "handle_page_fault"
  /\ \/ ~HasEntry(pre.procs, pre.current, last.vpn)
     \/ ~Entry(pre.procs, pre.current, last.vpn).valid

\* handle_page_fault was called on an entry whose private flag was clear.
FaultOnNonPrivate ==
  /\ last.op = "handle_page_fault"
  /\ HasEntry(pre.procs, pre.current, last.vpn)
  /\ Entry(pre.procs, pre.current, last.vpn).private = 0

FaultRefused ==
  /\ ~crashed
  /\ last.ret = 0
  /\ procs = pre.procs
  /\ mapcounts = pre.mapcounts

\* C13: handle_page_fault(vpn, rw) returns false and changes no PTE and no
\* mapcount whenever the current process has no valid mapping for vpn
\* (never allocated, second-level table absent, or freed, also when freed
\* after a fork marked it private) or the entry's private flag is clear.
C13_FaultOnUnmappedOrNonPrivateRefused ==
  (FaultOnUnmapped \/ FaultOnNonPrivate) => FaultRefused

\* The part of C13 the code keeps: with the second-level table present and
\* the private flag clear, the fault is refused and nothing changes.
C13_HoldsWhenPrivateClear ==
  FaultOnNonPrivate => FaultRefused

\* The freed-after-fork case of C13 on its own, which the code breaks as
\* well: the table is present, the entry is invalid, and free_page has left
\* its private flag set, so a write fault promotes it and returns true.
C13_FaultOnFreedEntryRefused ==
  (FaultOnUnmapped /\ HasEntry(pre.procs, pre.current, last.vpn))
    => FaultRefused

\* handle_page_fault took the shared-frame branch of lines 222-234.
FaultOnSharedFrame ==
  /\ Returned("handle_page_fault") /\ last.rw = RW_WRITE
  /\ FaultOld.private # 0 /\ ~FaultOld.writable
  /\ pre.mapcounts[FaultOld.pfn] >= 2

\* The frames the last call took from the pool.
FramesTaken == {f \in Frames : pre.mapcounts[f] = 0 /\ mapcounts[f] > 0}

CountsAreRight == \A f \in Frames : mapcounts[f] = NrMappings(procs, f)

\* The entry was moved to a frame that was free before the call.
FaultInstalledNewFrame ==
  /\ FaultNew.pfn # FaultOld.pfn
  /\ FaultNew.pfn \in FreeFrames(pre.mapcounts)
  /\ FaultNew.writable

\* C14: on the shared-frame branch (private, non-writable, write, mapcount
\* >= 2) handle_page_fault takes at most one frame from the pool, leaves the
\* mapcounts in agreement with the page tables when they agreed before, also
\* with no frame of mapcount 0, and decrements the old frame's mapcount and
\* returns true only if it installed a new frame in the entry.
C14_SharedBranchKeepsCounts ==
  FaultOnSharedFrame =>
    /\ Cardinality(FramesTaken) <= 1
    /\ CountsWereRight => CountsAreRight
    /\ (mapcounts[FaultOld.pfn] < pre.mapcounts[FaultOld.pfn] \/ last.ret = 1)
         => FaultInstalledNewFrame

\* Supplement to C14: the statement holds whenever the entry is valid and a
\* frame of mapcount 0 is left.
C14_HoldsForValidEntryWhenAFrameIsFree ==
  (FaultOld.valid /\ FreeFrames(pre.mapcounts) # {})
    => C14_SharedBranchKeepsCounts

\* C15: after alloc_page(v, write access) directly followed by free_page(v)
\* in the same process, every mapcount equals its value before the
\* allocation, and a directly following alloc_page(w, rw) for another VPN w
\* returns the PFN that was freed.
C15_AllocFreeRoundTrip ==
  /\ (trip.stage = 2 /\ Returned("free_page")) => mapcounts = trip.mapcounts
  /\ (trip.stage = 3 /\ Returned("alloc_page")) => last.ret = trip.pfn

C15_Witness ==
  /\ trip.stage = 3 /\ Returned("alloc_page")
  /\ last.vpn # trip.vpn
  /\ last.ret = trip.pfn
  /\ trip.pfn > 0

\* Process h maps vpn read-only: the entry is valid, not writable and not
\* marked private, which is what alloc_page installs for RW_READ.
ReadOnly(P, h, vpn) ==
  /\ HasEntry(P, h, vpn)
  /\ Entry(P, h, vpn).valid
  /\ ~Entry(P, h, vpn).writable
  /\ Entry(P, h, vpn).private = 0

\* C16: a page populated by alloc_page with read-only access is never
\* writable afterwards. alloc_page(v, RW_READ) installs a read-only entry;
\* every switch_process and handle_page_fault call leaves every read-only
\* entry of every process read-only on the same frame; a fork gives the
\* child a read-only entry for each read-only entry of its parent; and a
\* write fault on a read-only entry returns false.
C16_ReadOnlyPageStaysReadOnly ==
  /\ (Returned("alloc_page") /\ last.rw = RW_READ /\ last.ret >= 0)
       => ReadOnly(procs, current, last.vpn)
  /\ last.op \in {"switch_process", "handle_page_fault"}
       => \A h \in Handles(pre.procs), v \in AllVPNs :
            ReadOnly(pre.procs, h, v)
              => /\ ReadOnly(procs, h, v)
                 /\ Entry(procs, h, v).pfn = Entry(pre.procs, h, v).pfn
  /\ Forked
       => \A v \in AllVPNs :
            ReadOnly(pre.procs, pre.current, v)
              => /\ ReadOnly(procs, current, v)
                 /\ Entry(procs, current, v).pfn
                      = Entry(pre.procs, pre.current, v).pfn
  /\ (last.op = "handle_page_fault" /\ last.rw = RW_WRITE
        /\ ReadOnly(pre.procs, pre.current, last.vpn))
       => ~crashed /\ last.ret = 0

C16_Witness ==
  /\ Returned("handle_page_fault") /\ last.rw = RW_WRITE
  /\ ReadOnly(pre.procs, pre.current, last.vpn)
  /\ current > 1
  /\ ReadOnly(procs, 1, last.vpn)
  /\ mapcounts[FaultOld.pfn] >= 2
  /\ last.ret = 0

\* C17: after free_page(vpn) no valid TLB slot holds vpn, so lookup_tlb(vpn)
\* misses, whatever insert_tlb calls filled the TLB, the same VPN inserted
\* more than once included.
C17_FreePurgesTlb ==
  Returned("free_page") =>
    /\ \A i \in TlbSlots : ~(tlb[i].valid /\ tlb[i].vpn = last.vpn)
    /\ ~lookup_tlb_hit(tlb, last.vpn)

\* Supplement to C17: the statement holds whenever at most one valid slot
\* held vpn before the call.
C17_HoldsForSingleEntry ==
  Cardinality(TlbHits(pre.tlb, last.vpn)) <= 1 => C17_FreePurgesTlb

\* After a fork the child's entry for v equals the parent's.
ChildEntryEqualsParent(v) ==
  Entry(procs, current, v) = Entry(procs, pre.current, v)

\* After a fork each frame's mapcount has grown by the number of valid
\* entries of the parent that map it, and read-only entries of the parent
\* are still not private.
ForkCountsEveryValidEntry ==
  /\ \A f \in Frames :
       mapcounts[f] = pre.mapcounts[f]
         + Cardinality({v \in AllVPNs : Maps(pre.procs, pre.current, v, f)})
  /\ \A v \in AllVPNs :
       ReadOnly(pre.procs, pre.current, v)
         => Entry(procs, pre.current, v).private = 0

\* C18: after switch_process forks a child, for every VPN the child's entry
\* (valid, writable, pfn, private) equals the parent's entry as it stands
\* after the fork; every VPN invalid in the parent is invalid in the child;
\* and each frame's mapcount has grown by exactly the number of valid parent
\* entries that map it, read-only entries included, which stay non-private.
C18_ForkCopiesEveryEntry ==
  Forked =>
    /\ \A v \in AllVPNs : ChildEntryEqualsParent(v)
    /\ \A v \in AllVPNs :
         ~Entry(pre.procs, pre.current, v).valid
           => ~Entry(procs, current, v).valid
    /\ ForkCountsEveryValidEntry

\* Supplement to C18: the statement holds for the VPNs that are valid in
\* the parent, and so does the part about the mapcounts.
C18_HoldsForValidParentEntries ==
  Forked =>
    /\ \A v \in AllVPNs :
         Entry(pre.procs, pre.current, v).valid => ChildEntryEqualsParent(v)
    /\ ForkCountsEveryValidEntry

\* Before the last call, process h and the current process shared a page at
\* vpn as a fork leaves a writable page: both entries valid, non-writable
\* and private on one frame of mapcount 2.
SharedByFork(h, vpn) ==
  LET mine == Entry(pre.procs, pre.current, vpn)
      other == Entry(pre.procs, h, vpn)
  IN /\ h # pre.current
     /\ HasEntry(pre.procs, pre.current, vpn) /\ HasEntry(pre.procs, h, vpn)
     /\ mine.valid /\ ~mine.writable /\ mine.private # 0
     /\ other.valid /\ ~other.writable /\ other.private # 0
     /\ mine.pfn = other.pfn
     /\ pre.mapcounts[mine.pfn] = 2

\* Before the last call, process h had already been given its own frame for
\* vpn and the current process was left alone on the original frame.
OtherSideCopied(h, vpn) ==
  LET mine == Entry(pre.procs, pre.current, vpn)
      other == Entry(pre.procs, h, vpn)
  IN /\ h # pre.current
     /\ HasEntry(pre.procs, pre.current, vpn) /\ HasEntry(pre.procs, h, vpn)
     /\ mine.valid /\ ~mine.writable /\ mine.private # 0
     /\ other.valid /\ other.writable /\ other.private = 0
     /\ mine.pfn # other.pfn
     /\ pre.mapcounts[mine.pfn] = 1 /\ pre.mapcounts[other.pfn] = 1

WriteFault == Returned("handle_page_fault") /\ last.rw = RW_WRITE

\* The first write fault on a page shared by a fork gives the writer a new
\* frame: the two sides then map different frames.
FirstWriterGetsNewFrame ==
  \A h \in Handles(pre.procs) :
    (WriteFault /\ SharedByFork(h, last.vpn)) =>
      /\ last.ret = 1
      /\ FaultNew.valid /\ FaultNew.writable
      /\ FaultNew.pfn # FaultOld.pfn
      /\ Entry(procs, h, last.vpn) = Entry(pre.procs, h, last.vpn)
      /\ FaultNew.pfn # Entry(procs, h, last.vpn).pfn

\* The other side's later write fault is resolved in place: both entries
\* are then writable on distinct frames of mapcount 1.
SecondWriterKeepsFrame ==
  \A h \in Handles(pre.procs) :
    (WriteFault /\ OtherSideCopied(h, last.vpn)) =>
      /\ last.ret = 1
      /\ FaultNew.valid /\ FaultNew.writable
      /\ FaultNew.pfn = FaultOld.pfn
      /\ Entry(procs, h, last.vpn).writable
      /\ Entry(procs, h, last.vpn).pfn # FaultNew.pfn
      /\ mapcounts[FaultNew.pfn] = 1
      /\ mapcounts[Entry(procs, h, last.vpn).pfn] = 1

\* C19: after a fork shares a writable page between parent and child, the
\* first write fault by either side gives the writer a new frame, so the
\* two map different frames for that VPN; the other side's later write
\* fault is resolved in place on the original frame; at the end both
\* entries are writable, map distinct frames, and each frame has mapcount 1.
C19_CopyOnWriteSeparatesBothSides ==
  FirstWriterGetsNewFrame /\ SecondWriterKeepsFrame

\* Supplement to C19: the statement holds whenever a frame of mapcount 0 is
\* left at the first write fault.
C19_HoldsWhenAFrameIsFree ==
  FreeFrames(pre.mapcounts) # {} => C19_CopyOnWriteSeparatesBothSides

\* The second half of C19 holds on its own.
C19_SecondWriterHolds == SecondWriterKeepsFrame

\* Both halves of C19 happen: a second write fault was resolved in place
\* after the other side had received its own frame.
C19_BothSidesWritable ==
  \E h \in Handles(pre.procs) :
    /\ WriteFault /\ OtherSideCopied(h, last.vpn)
    /\ FaultNew.writable /\ Entry(procs, h, last.vpn).writable

\* handle_page_fault was called on an entry that was private while the
\* access was a read, or on an entry that was already writable.
FaultOnReadOrWritable ==
  /\ last.op = "handle_page_fault"
  /\ HasEntry(pre.procs, pre.current, last.vpn)
  /\ \/ FaultOld.private # 0 /\ last.rw = RW_READ
     \/ FaultOld.writable

\* C20: handle_page_fault(vpn, rw) returns false and changes no PTE and no
\* mapcount when the entry is private but the access is a read, or when the
\* entry is already writable.
C20_ReadFaultOrWritableEntryRefused ==
  FaultOnReadOrWritable => FaultRefused

C20_Witness ==
  /\ FaultOnReadOrWritable /\ FaultRefused
  /\ FaultOld.valid /\ FaultOld.private # 0 /\ ~FaultOld.writable
  /\ last.rw = RW_READ
  /\ pre.mapcounts[FaultOld.pfn] >= 1

\* C21: no operation decrements a mapcount that is 0: over any sequence of
\* alloc_page, free_page, handle_page_fault and switch_process calls no
\* frame's count drops below zero, and a count that was 0 before a call is
\* not lower after it.
C21_MapcountNeverBelowZero ==
  \A f \in Frames :
    /\ mapcounts[f] >= 0
    /\ pre.mapcounts[f] = 0 => mapcounts[f] >= pre.mapcounts[f]

C21_Witness ==
  /\ Returned("free_page")
  /\ Len(procs) > 1
  /\ pre.mapcounts[Entry(pre.procs, pre.current, last.vpn).pfn] = 0
  /\ mapcounts = pre.mapcounts
  /\ \E f \in Frames : mapcounts[f] > 0

\* The slots that were invalid when the last call started.
InvalidBefore == {i \in TlbSlots : ~pre.tlb[i].valid}

\* C22: insert_tlb(vpn, pfn) writes the lowest-indexed invalid TLB slot and
\* changes no other slot; when every slot is valid it leaves the whole TLB
\* unchanged; in both cases nothing else changes and the call does not fail.
C22_InsertFillsLowestInvalidSlot ==
  last.op = "insert_tlb" =>
    /\ ~crashed
    /\ mapcounts = pre.mapcounts /\ procs = pre.procs
    /\ current = pre.current /\ processes = pre.processes /\ ptbr = pre.ptbr
    /\ IF InvalidBefore = {}
       THEN tlb = pre.tlb
       ELSE \A i \in TlbSlots :
              IF i \in InvalidBefore /\ \A j \in InvalidBefore : i <= j
              THEN tlb[i] = [vpn |-> last.vpn, pfn |-> last.pfn, valid |-> TRUE]
              ELSE tlb[i] = pre.tlb[i]

C22_Witness ==
  /\ Returned("insert_tlb")
  /\ InvalidBefore = {}
  /\ tlb = pre.tlb

\* The other case of C22: the invalid slot that is filled lies below a valid
\* one, free_page having cleared it.
C22_HoleFilled ==
  /\ Returned("insert_tlb")
  /\ 0 \in InvalidBefore /\ pre.tlb[1].valid
  /\ tlb[0].valid /\ tlb[1] = pre.tlb[1]

\* C23: in every reachable state, a frame mapped by a valid writable entry
\* of one process is not mapped by any valid entry of another process,
\* counting the page-table entries themselves and not mapcounts[].
C23_WritableFrameHasOneOwner ==
  \A h \in Handles(procs), g \in Handles(procs), v \in AllVPNs, w \in AllVPNs :
    (h # g /\ HasEntry(procs, h, v) /\ Entry(procs, h, v).valid
       /\ Entry(procs, h, v).writable)
    => ~Maps(procs, g, w, Entry(procs, h, v).pfn)

\* C24: in every reachable state, every page-table entry of every process
\* whose private flag is set is valid and non-writable; free_page leaves no
\* invalid entry with private still set.
C24_PrivateEntryIsValidReadOnly ==
  \A h \in Handles(procs), v \in AllVPNs :
    (HasEntry(procs, h, v) /\ Entry(procs, h, v).private # 0)
    => Entry(procs, h, v).valid /\ ~Entry(procs, h, v).writable

\* The part of C24 the code keeps when malloc returns zero-filled memory: a
\* private entry that is valid is not writable.
C24_HoldsForValidEntries ==
  \A h \in Handles(procs), v \in AllVPNs :
    (HasEntry(procs, h, v) /\ Entry(procs, h, v).private # 0
       /\ Entry(procs, h, v).valid)
    => ~Entry(procs, h, v).writable

\* The current process is not on the suspended list, and every process
\* created so far is current or on the list exactly once.
ProcessListWellFormed ==
  /\ current \notin Range(processes)
  /\ \A h \in Handles(procs) :
       IF h = current
       THEN \A k \in 1 .. Len(processes) : processes[k] # h
       ELSE Cardinality({k \in 1 .. Len(processes) : processes[k] = h}) = 1

\* C25: after any sequence of switch_process calls, also with the pid of
\* the running process, no two processes among the current one and the
\* suspended list have the same pid, the current process is not on the
\* list, and every process created so far is current or on the list
\* exactly once.
C25_PidsAreUnique ==
  /\ \A h \in Handles(procs), g \in Handles(procs) :
       (h # g /\ {h, g} \subseteq ({current} \cup Range(processes)))
       => procs[h].pid # procs[g].pid
  /\ ProcessListWellFormed

\* Supplement to C25: the part about the list holds in every state.
C25_ListPartHolds == ProcessListWellFormed

\* Before the last call no two processes had the same pid.
PidsWereUnique ==
  \A h \in Handles(pre.procs), g \in Handles(pre.procs) :
    h # g => pre.procs[h].pid # pre.procs[g].pid

\* Supplement to C25: a call keeps the pids distinct unless it is
\* switch_process with the pid of the running process.
C25_HoldsUnlessOwnPid ==
  (PidsWereUnique
     /\ ~(last.op = "switch_process" /\ last.pid = pre.procs[pre.current].pid))
    => C25_PidsAreUnique

\* Every valid slot of the TLB t gives the frame that process h maps for
\* the slot's VPN in the process table P.
TlbAgrees(t, P, h) ==
  \A i \in TlbSlots : t[i].valid => Maps(P, h, t[i].vpn, t[i].pfn)

\* insert_tlb(v, p), if it was the last call, was made while the current
\* process's entry for v was valid and mapped p.
InsertWasBacked ==
  last.op = "insert_tlb" => Maps(pre.procs, pre.current, last.vpn, last.pfn)

\* C26: provided insert_tlb(v, p) is only called when the current process's
\* entry for v is valid and maps p, every valid TLB entry agrees with the
\* current process's page table in every reachable state. Stated per call:
\* a call that starts with the TLB in agreement, and that is no unbacked
\* insert_tlb, ends with the TLB in agreement.
C26_TlbAgreesWithPageTable ==
  (TlbAgrees(pre.tlb, pre.procs, pre.current) /\ InsertWasBacked)
    => TlbAgrees(tlb, procs, current)

\* The case C26 singles out: after a write fault that moved vpn to a new
\* frame, no valid TLB slot gives the old frame for it.
C26_FaultLeavesNoStaleEntry ==
  (Returned("handle_page_fault") /\ FaultNew.pfn # FaultOld.pfn
     /\ TlbAgrees(pre.tlb, pre.procs, pre.current))
    => \A i \in TlbSlots :
         ~(tlb[i].valid /\ tlb[i].vpn = last.vpn /\ tlb[i].pfn = FaultOld.pfn)

\* Supplement to C26: lookup_tlb, backed insert_tlb and switch_process keep
\* the TLB in agreement.
C26_HoldsForTlbCallsAndSwitch ==
  last.op \in {"lookup_tlb", "insert_tlb", "switch_process"}
    => C26_TlbAgreesWithPageTable

====
